---- MODULE Spec2Model ----
(***************************************************************************)
(* Model of the data-access layer and request handlers of src/main.go:     *)
(* the two tables (users, courses) kept by the relational store, the       *)
(* gorm statements the repository functions issue, the mapping of store    *)
(* errors to the error taxonomy, the handle resolution DefaultTrOrDB, a    *)
(* caller-established transaction, and the gin handlers of main.           *)
(***************************************************************************)
EXTENDS Integers, Sequences, FiniteSets, TLC

(* ------------------------------------------------------------------ *)
(* Bounds of the model.                                                 *)
(* ------------------------------------------------------------------ *)
\* identifiers (uuid values) are 1..MaxId; 0 is uuid.Nil
MaxId == 2
\* number of repository calls / handled requests in one behaviour
MaxCalls == 3
\* number of requests served concurrently
MaxReq == 2

Ids == 1..MaxId
NilId == 0
\* "" is Go's zero string, what a failed or partial request decoding leaves
Emails == {"", "a"}
Passwords == {"", "p"}
Names == {"", "n"}
URLs == {"", "u"}
Texts == {""}

(* ------------------------------------------------------------------ *)
(* Entities.                                                            *)
(* ------------------------------------------------------------------ *)
User == [Id : Ids \cup {NilId}, Email : Emails, Password : Passwords, Role : BOOLEAN]

Course == [Id : Ids \cup {NilId}, Name : Names, URL : URLs, Text : Texts]

\* new(User), new(Course): the zero value of the struct
ZeroUser == [Id |-> NilId, Email |-> "", Password |-> "", Role |-> FALSE]

ZeroCourse == [Id |-> NilId, Name |-> "", URL |-> "", Text |-> ""]

\* a nil *User / *Course
NilPtr == [nil |-> TRUE]

\* a []*Course: nil, or a (possibly empty) slice
NilSlice == [nil |-> TRUE, elems |-> << >>]

Slice(elems) == [nil |-> FALSE, elems |-> elems]

(* ------------------------------------------------------------------ *)
(* Errors. Strings stand for Go error values, compared by identity.     *)
(* ------------------------------------------------------------------ *)
ErrNotFound == "ErrNotFound"

ErrAlreadyExist == "ErrAlreadyExist"

ErrUnknown == "ErrUnknown"

\* the taxonomy values the repositories are documented to return
Taxonomy == {ErrNotFound, ErrAlreadyExist, ErrUnknown}

\* errors.Is(err, target) for the sentinel values used here: identity
ErrorsIs(err, target) == err = target

\* gorm.Open(..., &gorm.Config{}): the TranslateError option is left unset
TranslateError == FALSE

\* the driver's unique_violation error (SQLSTATE 23505), as gorm hands it on:
\* translated to gorm.ErrDuplicatedKey only when Config.TranslateError is set
DuplicateError == IF TranslateError THEN "gorm.ErrDuplicatedKey" ELSE "pg.23505"

\* a statement failure that is no sentinel (lost connection)
StoreFailures == {"nil", "driver.ErrBadConn"}

(* ------------------------------------------------------------------ *)
(* gorm statements on one table. key is the table's unique column.      *)
(* fail is "nil" or the error the store raises for this statement.      *)
(* ------------------------------------------------------------------ *)
\* tr.Create(rec): INSERT; primary key and unique column must be free
gormCreate(table, rec, key, fail) ==
    IF fail # "nil" THEN [Error |-> fail, table |-> table]
    ELSE IF \E r \in table : r.Id = rec.Id \/ r[key] = rec[key]
         THEN [Error |-> DuplicateError, table |-> table]
         ELSE [Error |-> "nil", table |-> table \cup {rec}]

\* tr.First(dest, cond): ORDER BY primary key LIMIT 1 over the matching rows
gormFirst(matches, zero, fail) ==
    IF fail # "nil" THEN [Error |-> fail, dest |-> zero]
    ELSE IF matches = {} THEN [Error |-> "gorm.ErrRecordNotFound", dest |-> zero]
         ELSE [Error |-> "nil",
               dest |-> CHOOSE r \in matches : \A o \in matches : r.Id <= o.Id]

\* tr.Find(&dest): every row, in an order the store chooses
gormFind(table, order, fail) ==
    IF fail # "nil" THEN [Error |-> fail, dest |-> << >>]
    ELSE [Error |-> "nil", dest |-> order]

\* the orders in which the store may return the rows of a table
Orders(table) ==
    {s \in [1..Cardinality(table) -> table] : \A i, j \in DOMAIN s : s[i] = s[j] => i = j}

\* an UPDATE on a table whose unique index is missing
gormUpdatesNoUnique(table, id, key, assign, fail) ==
    LET hit == {r \in table : r.Id = id}
        upd(r) == [f \in DOMAIN r |-> IF f \in DOMAIN assign THEN assign[f] ELSE r[f]]
    IN  IF fail # "nil" THEN [Error |-> fail, RowsAffected |-> 0, table |-> table]
        ELSE [Error |-> "nil", RowsAffected |-> Cardinality(hit),
              table |-> (table \ hit) \cup {upd(r) : r \in hit}]

\* tr.Model(m).Where("id = ?", id).Updates(map): UPDATE ... SET every column of
\* the map (zero values included) on the rows with that id
gormUpdates(table, id, key, assign, fail) ==
    LET hit == {r \in table : r.Id = id}
        upd(r) == [f \in DOMAIN r |-> IF f \in DOMAIN assign THEN assign[f] ELSE r[f]]
        clash == \E r \in hit : \E o \in table \ hit : o[key] = upd(r)[key]
    IN  IF fail # "nil" THEN [Error |-> fail, RowsAffected |-> 0, table |-> table]
        ELSE IF clash THEN [Error |-> DuplicateError, RowsAffected |-> 0, table |-> table]
        ELSE [Error |-> "nil", RowsAffected |-> Cardinality(hit),
              table |-> (table \ hit) \cup {upd(r) : r \in hit}]

\* tr.Clauses(clause.Returning{}).Where("id = ?", id).Delete(dest):
\* DELETE ... RETURNING *, the returned row scanned into dest
gormDelete(table, id, zero, fail) ==
    LET hit == {r \in table : r.Id = id}
    IN  IF fail # "nil" THEN [Error |-> fail, RowsAffected |-> 0, dest |-> zero, table |-> table]
        ELSE [Error |-> "nil", RowsAffected |-> Cardinality(hit),
              dest |-> IF hit = {} THEN zero ELSE CHOOSE r \in hit : TRUE,
              table |-> table \ hit]

(* ------------------------------------------------------------------ *)
(* Repository functions. tr is the table as the resolved handle sees    *)
(* it; the result holds the returned pointer, the returned error and    *)
(* the table after the statement.                                       *)
(* ------------------------------------------------------------------ *)
\* CreateCourse that inserts the record without its URL
CreateCourseDropsURL(tr, course, fail) ==
    LET r == gormCreate(tr, [course EXCEPT !.URL = ""], "Name", fail)
    IN  IF r.Error # "nil"
        THEN [res |-> NilPtr, err |-> r.Error, table |-> r.table]
        ELSE [res |-> course, err |-> "nil", table |-> r.table]

CreateCourse(tr, course, fail) ==
    LET r == gormCreate(tr, course, "Name", fail)
    IN  IF r.Error # "nil"
        THEN IF ErrorsIs(r.Error, "gorm.ErrDuplicatedKey")
             THEN [res |-> NilPtr, err |-> ErrAlreadyExist, table |-> r.table]
             ELSE [res |-> NilPtr, err |-> r.Error, table |-> r.table]
        ELSE [res |-> course, err |-> "nil", table |-> r.table]

GetCourse(tr, courseId, fail) ==
    LET r == gormFirst({c \in tr : c.Id = courseId}, ZeroCourse, fail)
    IN  IF r.Error # "nil"
        THEN IF ErrorsIs(r.Error, "gorm.ErrRecordNotFound")
             THEN [res |-> NilPtr, err |-> ErrNotFound, table |-> tr]
             ELSE [res |-> NilPtr, err |-> r.Error, table |-> tr]
        ELSE [res |-> r.dest, err |-> "nil", table |-> tr]

\* GetCourses that leaves out the last row the store returned
GetCoursesOmitsLast(tr, order, fail) ==
    LET r == gormFind(tr, order, fail)
    IN  IF r.Error # "nil"
        THEN [res |-> NilSlice, err |-> r.Error, table |-> tr]
        ELSE [res |-> Slice(SubSeq(r.dest, 1, Len(r.dest) - 1)), err |-> "nil", table |-> tr]

GetCourses(tr, order, fail) ==
    LET r == gormFind(tr, order, fail)
    IN  IF r.Error # "nil"
        THEN [res |-> NilSlice, err |-> r.Error, table |-> tr]
        ELSE [res |-> Slice(r.dest), err |-> "nil", table |-> tr]

UpdateCourse(tr, course, fail) ==
    LET result == gormUpdates(tr, course.Id, "Name",
                     [Name |-> course.Name, URL |-> course.URL, Text |-> course.Text], fail)
    IN  IF result.Error # "nil"
        THEN IF ErrorsIs(result.Error, "gorm.ErrRecordNotFound")
             THEN [res |-> NilPtr, err |-> ErrNotFound, table |-> result.table]
             ELSE [res |-> NilPtr, err |-> result.Error, table |-> result.table]
        ELSE IF result.RowsAffected = 0
             THEN [res |-> NilPtr, err |-> ErrNotFound, table |-> result.table]
             ELSE [res |-> course, err |-> "nil", table |-> result.table]

DeleteCourse(tr, userId, fail) ==
    LET result == gormDelete(tr, userId, ZeroCourse, fail)
    IN  IF result.Error # "nil"
        THEN IF ErrorsIs(result.Error, "gorm.ErrRecordNotFound")
             THEN [res |-> NilPtr, err |-> ErrNotFound, table |-> result.table]
             ELSE [res |-> NilPtr, err |-> result.Error, table |-> result.table]
        ELSE IF result.RowsAffected = 0
             THEN [res |-> NilPtr, err |-> ErrNotFound, table |-> result.table]
             ELSE [res |-> result.dest, err |-> "nil", table |-> result.table]

CreateUser(tr, user, fail) ==
    LET r == gormCreate(tr, user, "Email", fail)
    IN  IF r.Error # "nil"
        THEN IF ErrorsIs(r.Error, "gorm.ErrDuplicatedKey")
             THEN [res |-> NilPtr, err |-> ErrAlreadyExist, table |-> r.table]
             ELSE [res |-> NilPtr, err |-> r.Error, table |-> r.table]
        ELSE [res |-> user, err |-> "nil", table |-> r.table]

GetUser(tr, userId, fail) ==
    LET r == gormFirst({u \in tr : u.Id = userId}, ZeroUser, fail)
    IN  IF r.Error # "nil"
        THEN IF ErrorsIs(r.Error, "gorm.ErrRecordNotFound")
             THEN [res |-> NilPtr, err |-> ErrNotFound, table |-> tr]
             ELSE [res |-> NilPtr, err |-> r.Error, table |-> tr]
        ELSE [res |-> r.dest, err |-> "nil", table |-> tr]

Auth(tr, email, fail) ==
    LET r == gormFirst({u \in tr : u.Email = email}, ZeroUser, fail)
    IN  IF r.Error # "nil"
        THEN IF ErrorsIs(r.Error, "gorm.ErrRecordNotFound")
             THEN [res |-> NilPtr, err |-> ErrNotFound, table |-> tr]
             ELSE [res |-> NilPtr, err |-> r.Error, table |-> tr]
        ELSE [res |-> r.dest, err |-> "nil", table |-> tr]

\* UpdateUser without the RowsAffected test
UpdateUserNoRowsCheck(tr, user, fail) ==
    LET result == gormUpdates(tr, user.Id, "Email",
                     [Email |-> user.Email, Password |-> user.Password], fail)
    IN  IF result.Error # "nil"
        THEN IF ErrorsIs(result.Error, "gorm.ErrRecordNotFound")
             THEN [res |-> NilPtr, err |-> ErrNotFound, table |-> result.table]
             ELSE [res |-> NilPtr, err |-> result.Error, table |-> result.table]
        ELSE [res |-> user, err |-> "nil", table |-> result.table]

\* UpdateUser with the role column in the map of updated columns
UpdateUserWritesRole(tr, user, fail) ==
    LET result == gormUpdates(tr, user.Id, "Email",
                     [Email |-> user.Email, Password |-> user.Password,
                      Role |-> user.Role], fail)
    IN  IF result.Error # "nil"
        THEN IF ErrorsIs(result.Error, "gorm.ErrRecordNotFound")
             THEN [res |-> NilPtr, err |-> ErrNotFound, table |-> result.table]
             ELSE [res |-> NilPtr, err |-> result.Error, table |-> result.table]
        ELSE IF result.RowsAffected = 0
             THEN [res |-> NilPtr, err |-> ErrNotFound, table |-> result.table]
             ELSE [res |-> user, err |-> "nil", table |-> result.table]

UpdateUser(tr, user, fail) ==
    LET result == gormUpdates(tr, user.Id, "Email",
                     [Email |-> user.Email, Password |-> user.Password], fail)
    IN  IF result.Error # "nil"
        THEN IF ErrorsIs(result.Error, "gorm.ErrRecordNotFound")
             THEN [res |-> NilPtr, err |-> ErrNotFound, table |-> result.table]
             ELSE [res |-> NilPtr, err |-> result.Error, table |-> result.table]
        ELSE IF result.RowsAffected = 0
             THEN [res |-> NilPtr, err |-> ErrNotFound, table |-> result.table]
             ELSE [res |-> user, err |-> "nil", table |-> result.table]

\* DeleteUser without clause.Returning: the result is rebuilt from the argument
DeleteUserRebuilt(tr, userId, fail) ==
    LET result == gormDelete(tr, userId, ZeroUser, fail)
    IN  IF result.Error # "nil"
        THEN [res |-> NilPtr, err |-> result.Error, table |-> result.table]
        ELSE IF result.RowsAffected = 0
             THEN [res |-> NilPtr, err |-> ErrNotFound, table |-> result.table]
             ELSE [res |-> [ZeroUser EXCEPT !.Id = userId], err |-> "nil",
                   table |-> result.table]

DeleteUser(tr, userId, fail) ==
    LET result == gormDelete(tr, userId, ZeroUser, fail)
    IN  IF result.Error # "nil"
        THEN IF ErrorsIs(result.Error, "gorm.ErrRecordNotFound")
             THEN [res |-> NilPtr, err |-> ErrNotFound, table |-> result.table]
             ELSE [res |-> NilPtr, err |-> result.Error, table |-> result.table]
        ELSE IF result.RowsAffected = 0
             THEN [res |-> NilPtr, err |-> ErrNotFound, table |-> result.table]
             ELSE [res |-> result.dest, err |-> "nil", table |-> result.table]

(* ------------------------------------------------------------------ *)
(* State.                                                               *)
(* ------------------------------------------------------------------ *)
VARIABLES
    users,    \* committed rows of the users table
    courses,  \* committed rows of the courses table
    tx,       \* the caller-established transaction and its uncommitted view
    last,     \* the latest repository call (or transaction step) and its outcome
    http,     \* the response writes of the latest handled request
    nCalls,   \* repository calls and requests so far
    reqs      \* the registraition requests being served concurrently

vars == <<users, courses, tx, last, http, nCalls, reqs>>

Reqs == 1..MaxReq

Idle == [pc |-> "idle"]

NoTx == [open |-> FALSE, aborted |-> FALSE, users |-> {}, courses |-> {},
         beginUsers |-> {}, beginCourses |-> {}]

NoHttp == [handler |-> "none", decoded |-> FALSE, writes |-> << >>, panic |-> FALSE]

\* execution contexts: context.Background(), or one carrying the transaction
Contexts == {"background", "txctx"}

\* a resolution that ignores the context
DefaultTrOrDBIgnoresCtx(ctx) == "db"

\* a resolution that takes any open transaction, whatever the context carries
DefaultTrOrDBAnyOpenTx(ctx) == IF tx.open THEN "tx" ELSE "db"

\* getter.DefaultTrOrDB(ctx, db): the transaction the context carries, else db
DefaultTrOrDB(ctx) == IF ctx = "txctx" /\ tx.open THEN "tx" ELSE "db"

\* the rows of a table as a handle sees them
View(handle, kind) ==
    IF handle = "tx" THEN (IF kind = "users" THEN tx.users ELSE tx.courses)
    ELSE (IF kind = "users" THEN users ELSE courses)

\* a statement on an aborted transaction fails (SQLSTATE 25P02) until rollback
Fail(handle, fault) == IF handle = "tx" /\ tx.aborted THEN "pg.25P02" ELSE fault

Init ==
    /\ users = {}
    /\ courses = {}
    /\ tx = NoTx
    /\ last = [op |-> "none"]
    /\ http = NoHttp
    /\ nCalls = 0
    /\ reqs = [r \in Reqs |-> Idle]

(* ------------------------------------------------------------------ *)
(* One repository call: resolve the handle, run the statement on the    *)
(* handle's view, keep the outcome in last.                             *)
(* ------------------------------------------------------------------ *)
\* calls are made one after the other; a context carries the transaction only
\* while the transaction is open, and callers outside the transaction only read
\* while it is open
CallAllowed(ctx, writes) ==
    /\ last.op = "none"
    /\ nCalls < MaxCalls
    /\ ctx = "txctx" => tx.open
    /\ (ctx = "background" /\ writes) => ~tx.open

\* an error of the store (not a mere absence of rows) aborts the transaction
Aborts(err) == err \notin {"nil", ErrNotFound}

Record(kind, op, ctx, arg, fail, out, h) ==
    LET handle == DefaultTrOrDB(ctx)
    IN  /\ last' = [op |-> op, kind |-> kind, ctx |-> ctx, handle |-> handle, arg |-> arg,
                    fail |-> fail, res |-> out.res, err |-> out.err,
                    pre |-> [users |-> View(handle, "users"),
                             courses |-> View(handle, "courses")]]
        /\ IF handle = "tx"
           THEN /\ tx' = [tx EXCEPT !.users = IF kind = "users" THEN out.table ELSE @,
                                    !.courses = IF kind = "courses" THEN out.table ELSE @,
                                    !.aborted = @ \/ Aborts(out.err)]
                /\ UNCHANGED <<users, courses>>
           ELSE /\ users' = IF kind = "users" THEN out.table ELSE users
                /\ courses' = IF kind = "courses" THEN out.table ELSE courses
                /\ UNCHANGED tx
        /\ http' = h
        /\ nCalls' = nCalls + 1
        /\ UNCHANGED reqs

Tr(ctx, kind) == View(DefaultTrOrDB(ctx), kind)

Flt(ctx, fault) == Fail(DefaultTrOrDB(ctx), fault)

DoCreateUser(ctx, user, fault) ==
    /\ CallAllowed(ctx, TRUE)
    /\ Record("users", "CreateUser", ctx, user, Flt(ctx, fault),
              CreateUser(Tr(ctx, "users"), user, Flt(ctx, fault)), NoHttp)

DoGetUser(ctx, userId, fault) ==
    /\ CallAllowed(ctx, FALSE)
    /\ Record("users", "GetUser", ctx, userId, Flt(ctx, fault),
              GetUser(Tr(ctx, "users"), userId, Flt(ctx, fault)), NoHttp)

DoAuth(ctx, email, fault) ==
    /\ CallAllowed(ctx, FALSE)
    /\ Record("users", "Auth", ctx, email, Flt(ctx, fault),
              Auth(Tr(ctx, "users"), email, Flt(ctx, fault)), NoHttp)

DoUpdateUser(ctx, user, fault) ==
    /\ CallAllowed(ctx, TRUE)
    /\ Record("users", "UpdateUser", ctx, user, Flt(ctx, fault),
              UpdateUser(Tr(ctx, "users"), user, Flt(ctx, fault)), NoHttp)

DoDeleteUser(ctx, userId, fault) ==
    /\ CallAllowed(ctx, TRUE)
    /\ Record("users", "DeleteUser", ctx, userId, Flt(ctx, fault),
              DeleteUser(Tr(ctx, "users"), userId, Flt(ctx, fault)), NoHttp)

DoCreateCourse(ctx, course, fault) ==
    /\ CallAllowed(ctx, TRUE)
    /\ Record("courses", "CreateCourse", ctx, course, Flt(ctx, fault),
              CreateCourse(Tr(ctx, "courses"), course, Flt(ctx, fault)), NoHttp)

DoGetCourse(ctx, courseId, fault) ==
    /\ CallAllowed(ctx, FALSE)
    /\ Record("courses", "GetCourse", ctx, courseId, Flt(ctx, fault),
              GetCourse(Tr(ctx, "courses"), courseId, Flt(ctx, fault)), NoHttp)

DoGetCourses(ctx, fault) ==
    /\ CallAllowed(ctx, FALSE)
    /\ \E order \in Orders(Tr(ctx, "courses")) :
          Record("courses", "GetCourses", ctx, "all", Flt(ctx, fault),
                 GetCourses(Tr(ctx, "courses"), order, Flt(ctx, fault)), NoHttp)

DoUpdateCourse(ctx, course, fault) ==
    /\ CallAllowed(ctx, TRUE)
    /\ Record("courses", "UpdateCourse", ctx, course, Flt(ctx, fault),
              UpdateCourse(Tr(ctx, "courses"), course, Flt(ctx, fault)), NoHttp)

DoDeleteCourse(ctx, courseId, fault) ==
    /\ CallAllowed(ctx, TRUE)
    /\ Record("courses", "DeleteCourse", ctx, courseId, Flt(ctx, fault),
              DeleteCourse(Tr(ctx, "courses"), courseId, Flt(ctx, fault)), NoHttp)

(* ------------------------------------------------------------------ *)
(* The caller's transaction: begin, commit, rollback.                   *)
(* ------------------------------------------------------------------ *)
TxBegin ==
    /\ ~tx.open
    /\ last.op = "none"
    /\ nCalls < MaxCalls
    /\ tx' = [open |-> TRUE, aborted |-> FALSE, users |-> users, courses |-> courses,
              beginUsers |-> users, beginCourses |-> courses]
    /\ UNCHANGED <<users, courses, last, http, nCalls, reqs>>

\* COMMIT of an aborted transaction rolls it back
TxCommit ==
    /\ tx.open
    /\ last.op = "none"
    /\ users' = IF tx.aborted THEN users ELSE tx.users
    /\ courses' = IF tx.aborted THEN courses ELSE tx.courses
    /\ last' = [op |-> "TxCommit", tx |-> tx]
    /\ tx' = NoTx
    /\ http' = NoHttp
    /\ UNCHANGED <<nCalls, reqs>>

TxRollback ==
    /\ tx.open
    /\ last.op = "none"
    /\ last' = [op |-> "TxRollback", tx |-> tx]
    /\ tx' = NoTx
    /\ http' = NoHttp
    /\ UNCHANGED <<users, courses, nCalls, reqs>>

\* the call, or the handler, returns: its outcome has been handed to the caller
Return ==
    /\ last.op # "none"
    /\ last' = [op |-> "none"]
    /\ http' = NoHttp
    /\ UNCHANGED <<users, courses, tx, nCalls, reqs>>

(* ------------------------------------------------------------------ *)
(* Request handlers of main. Each c.JSON call is one entry of writes;   *)
(* a handler does not return after writing an error response.           *)
(* ------------------------------------------------------------------ *)
BadRequest(message) == [status |-> 400, key |-> "BadRequest", body |-> message]

Internal(message) == [status |-> 500, key |-> "Internal", body |-> message]

OK(response) == [status |-> 200, key |-> "OK", body |-> response]

\* a request's identifier string: a well-formed uuid (its value), or malformed
Malformed == 0 - 1

IdStrings == Ids \cup {NilId, Malformed}

\* uuid.Parse: the zero uuid and an error for a malformed string
Parse(s) == IF s = Malformed THEN [id |-> NilId, err |-> "invalid UUID"]
            ELSE [id |-> s, err |-> "nil"]

\* c.ShouldBind / c.ShouldBindJSON: an undecodable body leaves the request zero
Bind(ok, req, zero) == IF ok THEN [req |-> req, err |-> "nil"]
                       ELSE [req |-> zero, err |-> "bind"]

\* request bodies: a decodable one for every input, and an undecodable one
Bodies(inputs) == {<<TRUE, i>> : i \in inputs} \cup {<<FALSE, CHOOSE i \in inputs : TRUE>>}

\* the writes of "if err != nil { BadRequest(c, message) }"
OnErr(err, w) == IF err # "nil" THEN << w >> ELSE << >>

\* the error switch of registraition, createCourse and updateCourse
SwitchAlreadyExist(err) ==
    IF err = "nil" THEN << >>
    ELSE IF ErrorsIs(err, ErrAlreadyExist) THEN << BadRequest("Already exists") >>
    ELSE << Internal("Unknown error") >>

\* the error switch of deleteCourse and getCourse
SwitchNotFound(err) ==
    IF err = "nil" THEN << >>
    ELSE IF ErrorsIs(err, ErrNotFound) THEN << BadRequest("ErrNotFound") >>
    ELSE << Internal("Unknown error") >>

\* what a request left behind: whether its body (and identifier) decoded, the
\* c.JSON calls in order, and whether the handler panicked
Response(handler, decoded, writes, panic) ==
    [handler |-> handler, decoded |-> decoded, writes |-> writes, panic |-> panic]

\* uuid.New(): an identifier no stored row has
NewIds(table) == Ids \ {r.Id : r \in table}

registraition(bindOk, input, id, fault) ==
    LET b == Bind(bindOk, input, [Email |-> "", Password |-> "", Role |-> FALSE])
        user == [Id |-> id, Email |-> b.req.Email, Password |-> b.req.Password,
                 Role |-> b.req.Role]
        out == CreateUser(users, user, fault)
    IN  /\ CallAllowed("background", TRUE)
        /\ id \in NewIds(users)
        /\ Record("users", "CreateUser", "background", user, fault, out,
                  Response("registraition", b.err = "nil",
                           OnErr(b.err, BadRequest("Invalid request"))
                           \o SwitchAlreadyExist(out.err) \o << OK(out.res) >>, FALSE))

signIn(bindOk, input, fault) ==
    LET b == Bind(bindOk, input, [Email |-> "", Password |-> "", Role |-> FALSE])
        out == Auth(users, b.req.Email, fault)
        first == OnErr(b.err, BadRequest("Invalid request"))
                 \o (IF out.err = "nil" THEN << >>
                     ELSE IF ErrorsIs(out.err, ErrNotFound) THEN << BadRequest("NotFound") >>
                     ELSE << Internal("Unknown error") >>)
    IN  /\ CallAllowed("background", FALSE)
        /\ Record("users", "Auth", "background", b.req.Email, fault, out,
                  IF out.res = NilPtr
                  THEN \* res.Email on a nil pointer: the handler panics
                       Response("signIn", b.err = "nil", first, TRUE)
                  ELSE IF b.req.Email = out.res.Email /\ b.req.Password = out.res.Password
                       THEN Response("signIn", b.err = "nil", first \o << OK(out.res) >>, FALSE)
                       ELSE Response("signIn", b.err = "nil",
                                first \o << BadRequest("Invalid email or password") >>, FALSE))

createCourse(bindOk, input, id, fault) ==
    LET b == Bind(bindOk, input, [Name |-> "", URL |-> "", Text |-> ""])
        course == [Id |-> id, Name |-> b.req.Name, URL |-> b.req.URL, Text |-> b.req.Text]
        out == CreateCourse(courses, course, fault)
    IN  /\ CallAllowed("background", TRUE)
        /\ id \in NewIds(courses)
        /\ Record("courses", "CreateCourse", "background", course, fault, out,
                  Response("createCourse", b.err = "nil",
                           OnErr(b.err, BadRequest("Invalid request"))
                           \o SwitchAlreadyExist(out.err) \o << OK(out.res) >>, FALSE))

updateCourse(bindOk, input, fault) ==
    LET b == Bind(bindOk, input, [Id |-> Malformed, Name |-> "", URL |-> "", Text |-> ""])
        p == Parse(b.req.Id)
        course == [Id |-> p.id, Name |-> b.req.Name, URL |-> b.req.URL, Text |-> b.req.Text]
        out == UpdateCourse(courses, course, fault)
    IN  /\ CallAllowed("background", TRUE)
        /\ Record("courses", "UpdateCourse", "background", course, fault, out,
                  Response("updateCourse", b.err = "nil" /\ p.err = "nil",
                           OnErr(b.err, BadRequest("Invalid request"))
                           \o OnErr(p.err, BadRequest("Invalid id"))
                           \o SwitchAlreadyExist(out.err) \o << OK(out.res) >>, FALSE))

deleteCourse(bindOk, input, fault) ==
    LET b == Bind(bindOk, input, [Id |-> Malformed])
        p == Parse(b.req.Id)
        out == DeleteCourse(courses, p.id, fault)
    IN  /\ CallAllowed("background", TRUE)
        /\ Record("courses", "DeleteCourse", "background", p.id, fault, out,
                  Response("deleteCourse", b.err = "nil" /\ p.err = "nil",
                           OnErr(b.err, BadRequest("Invalid request"))
                           \o OnErr(p.err, BadRequest("Invalid id"))
                           \o SwitchNotFound(out.err) \o << OK(out.res) >>, FALSE))

\* a getCourse handler that calls the delete path
getCourseDeletes(bindOk, input, fault) ==
    LET b == Bind(bindOk, input, [Id |-> Malformed])
        p == Parse(b.req.Id)
        out == DeleteCourse(courses, p.id, fault)
    IN  /\ CallAllowed("background", TRUE)
        /\ Record("courses", "DeleteCourse", "background", p.id, fault, out,
                  Response("getCourse", b.err = "nil" /\ p.err = "nil",
                           OnErr(b.err, BadRequest("Invalid request"))
                           \o OnErr(p.err, BadRequest("Invalid id"))
                           \o SwitchNotFound(out.err) \o << OK(out.res) >>, FALSE))

getCourse(bindOk, input, fault) ==
    LET b == Bind(bindOk, input, [Id |-> Malformed])
        p == Parse(b.req.Id)
        out == GetCourse(courses, p.id, fault)
    IN  /\ CallAllowed("background", FALSE)
        /\ Record("courses", "GetCourse", "background", p.id, fault, out,
                  Response("getCourse", b.err = "nil" /\ p.err = "nil",
                           OnErr(b.err, BadRequest("Invalid request"))
                           \o OnErr(p.err, BadRequest("Invalid id"))
                           \o SwitchNotFound(out.err) \o << OK(out.res) >>, FALSE))

getCourses(fault) ==
    /\ CallAllowed("background", FALSE)
    /\ \E order \in Orders(courses) :
          LET out == GetCourses(courses, order, fault)
          IN  Record("courses", "GetCourses", "background", "all", fault, out,
                     Response("getCourses", TRUE,
                              OnErr(out.err, Internal("Unknown error"))
                              \o << OK(out.res) >>, FALSE))

(* ------------------------------------------------------------------ *)
(* Inputs and the next-state relation.                                  *)
(* ------------------------------------------------------------------ *)
\* records a caller passes to Create and Update: the identifier is a real uuid
NewUsers == {u \in User : u.Id \in Ids}

NewCourses == {c \in Course : c.Id \in Ids}

AuthInputs == [Email : Emails, Password : Passwords, Role : BOOLEAN]

CourseInputs == [Name : Names, URL : URLs, Text : Texts]

UpdateCourseInputs == [Id : IdStrings, Name : Names, URL : URLs, Text : Texts]

IdInputs == [Id : IdStrings]

Next ==
    \/ \E ctx \in Contexts, user \in NewUsers, fault \in StoreFailures :
          DoCreateUser(ctx, user, fault)
    \/ \E ctx \in Contexts, id \in Ids \cup {NilId}, fault \in StoreFailures :
          DoGetUser(ctx, id, fault)
    \/ \E ctx \in Contexts, email \in Emails, fault \in StoreFailures :
          DoAuth(ctx, email, fault)
    \/ \E ctx \in Contexts, user \in User, fault \in StoreFailures :
          DoUpdateUser(ctx, user, fault)
    \/ \E ctx \in Contexts, id \in Ids \cup {NilId}, fault \in StoreFailures :
          DoDeleteUser(ctx, id, fault)
    \/ \E ctx \in Contexts, course \in NewCourses, fault \in StoreFailures :
          DoCreateCourse(ctx, course, fault)
    \/ \E ctx \in Contexts, id \in Ids \cup {NilId}, fault \in StoreFailures :
          DoGetCourse(ctx, id, fault)
    \/ \E ctx \in Contexts, fault \in StoreFailures :
          DoGetCourses(ctx, fault)
    \/ \E ctx \in Contexts, course \in Course, fault \in StoreFailures :
          DoUpdateCourse(ctx, course, fault)
    \/ \E ctx \in Contexts, id \in Ids \cup {NilId}, fault \in StoreFailures :
          DoDeleteCourse(ctx, id, fault)
    \/ TxBegin
    \/ TxCommit
    \/ TxRollback
    \/ Return
    \/ \E body \in Bodies(AuthInputs), id \in Ids, fault \in StoreFailures :
          registraition(body[1], body[2], id, fault)
    \/ \E body \in Bodies(AuthInputs), fault \in StoreFailures :
          signIn(body[1], body[2], fault)
    \/ \E body \in Bodies(CourseInputs), id \in Ids, fault \in StoreFailures :
          createCourse(body[1], body[2], id, fault)
    \/ \E body \in Bodies(UpdateCourseInputs), fault \in StoreFailures :
          updateCourse(body[1], body[2], fault)
    \/ \E body \in Bodies(IdInputs), fault \in StoreFailures :
          deleteCourse(body[1], body[2], fault)
    \/ \E body \in Bodies(IdInputs), fault \in StoreFailures :
          getCourse(body[1], body[2], fault)
    \/ \E fault \in StoreFailures : getCourses(fault)

Spec == Init /\ [][Next]_vars

(* ------------------------------------------------------------------ *)
(* Requests served concurrently: the registraition handler in its       *)
(* steps, each request a goroutine of its own. The INSERT is one        *)
(* statement of the store; the steps of different requests interleave.  *)
(* ------------------------------------------------------------------ *)
\* identifiers uuid.New() has handed to requests that have not inserted yet
HeldIds == {reqs[r].user.Id : r \in {q \in Reqs : reqs[q].pc = "bound"}}

\* lines 116-126: decode the body, build the account with a fresh identifier
regBind(r, bindOk, input, id) ==
    LET b == Bind(bindOk, input, [Email |-> "", Password |-> "", Role |-> FALSE])
    IN  /\ reqs[r].pc = "idle"
        /\ id \in NewIds(users) \ HeldIds
        /\ reqs' = [reqs EXCEPT ![r] =
                       [pc |-> "bound",
                        user |-> [Id |-> id, Email |-> b.req.Email,
                                  Password |-> b.req.Password, Role |-> b.req.Role],
                        writes |-> OnErr(b.err, BadRequest("Invalid request"))]]
        /\ UNCHANGED <<users, courses, tx, last, http, nCalls>>

\* line 121: CreateUser(context.Background(), ...) on the default handle
regCreate(r, fault) ==
    LET handle == DefaultTrOrDB("background")
        out == CreateUser(View(handle, "users"), reqs[r].user, Fail(handle, fault))
    IN  /\ reqs[r].pc = "bound"
        /\ ~tx.open
        /\ users' = out.table
        /\ reqs' = [reqs EXCEPT ![r] =
                       [pc |-> "created", user |-> reqs[r].user, writes |-> reqs[r].writes,
                        fail |-> Fail(handle, fault), res |-> out.res, err |-> out.err]]
        /\ UNCHANGED <<courses, tx, last, http, nCalls>>

\* lines 128-137: the error switch, then OK(c, res)
regRespond(r) ==
    /\ reqs[r].pc = "created"
    /\ reqs' = [reqs EXCEPT ![r].pc = "done",
                            ![r].writes = @ \o SwitchAlreadyExist(reqs[r].err)
                                            \o << OK(reqs[r].res) >>]
    /\ UNCHANGED <<users, courses, tx, last, http, nCalls>>

NextConc ==
    \/ \E r \in Reqs, body \in Bodies(AuthInputs), id \in Ids :
          regBind(r, body[1], body[2], id)
    \/ \E r \in Reqs, fault \in StoreFailures : regCreate(r, fault)
    \/ \E r \in Reqs : regRespond(r)

SpecConc == Init /\ [][NextConc]_vars

(* ------------------------------------------------------------------ *)
(* Properties. last holds the call that has just run, with the tables   *)
(* as its handle saw them before the statement (last.pre).              *)
(* ------------------------------------------------------------------ *)
RepoOps == {"CreateUser", "GetUser", "Auth", "UpdateUser", "DeleteUser",
            "CreateCourse", "GetCourse", "GetCourses", "UpdateCourse", "DeleteCourse"}

IsCall == last.op \in RepoOps

\* the tables as the handle of the latest call sees them now
Now == [users |-> View(last.handle, "users"), courses |-> View(last.handle, "courses")]

StoreSame == Now = last.pre

\* the table the latest call works on, before and after it
PreTable == IF last.kind = "users" THEN last.pre.users ELSE last.pre.courses

NowTable == IF last.kind = "users" THEN Now.users ELSE Now.courses

\* the other table, which no call on this one may touch
OtherSame == IF last.kind = "users" THEN Now.courses = last.pre.courses
             ELSE Now.users = last.pre.users

\* the identifier a lookup, update or delete by identifier names
ArgId == IF last.op \in {"UpdateUser", "UpdateCourse"} THEN last.arg.Id ELSE last.arg

Stored(id) == \E r \in PreTable : r.Id = id

\* a create whose identifier or unique key equals that of a stored record
Collides ==
    \/ /\ last.op = "CreateUser"
       /\ \E r \in last.pre.users : r.Id = last.arg.Id \/ r.Email = last.arg.Email
    \/ /\ last.op = "CreateCourse"
       /\ \E r \in last.pre.courses : r.Id = last.arg.Id \/ r.Name = last.arg.Name

\* C1 (as claimed): a create that collides with a stored record on its
\* identifier or unique key returns ErrAlreadyExist, inserts nothing and leaves
\* the stored records as they were. The code returns the driver's error instead.
C1_Uniqueness ==
    (IsCall /\ last.fail = "nil" /\ Collides)
        => /\ last.err = ErrAlreadyExist
           /\ last.res = NilPtr
           /\ StoreSame

\* C2: lookup, update and delete by an identifier that is not stored return
\* ErrNotFound (for update and delete: with no store error and zero rows
\* affected) and leave both tables as they were.
C2_NotFoundSymmetry ==
    (/\ IsCall
     /\ last.op \in {"GetUser", "UpdateUser", "DeleteUser",
                     "GetCourse", "UpdateCourse", "DeleteCourse"}
     /\ last.fail = "nil"
     /\ ~Stored(ArgId))
        => /\ last.err = ErrNotFound
           /\ last.res = NilPtr
           /\ StoreSame

\* C2 witness: an update and a delete of a missing identifier on a non-empty table
C2_Witness ==
    /\ IsCall
    /\ last.op \in {"UpdateUser", "DeleteCourse"}
    /\ last.fail = "nil"
    /\ PreTable # {}
    /\ ~Stored(ArgId)
    /\ last.err = ErrNotFound

\* C3: after the caller rolls its transaction back, the committed tables are
\* those of the moment the transaction began, and a lookup by the email of an
\* account that was not stored then returns ErrNotFound: nothing a call made
\* inside the transaction did is observable.
C3_TxAtomicity ==
    last.op = "TxRollback"
        => /\ users = last.tx.beginUsers
           /\ courses = last.tx.beginCourses
           /\ \A email \in Emails :
                 (\A u \in last.tx.beginUsers : u.Email # email)
                     => Auth(View(DefaultTrOrDB("background"), "users"), email, "nil").err
                            = ErrNotFound

\* C3 witness: a rolled-back transaction in which an account was created and a
\* later call failed
C3_Witness ==
    /\ last.op = "TxRollback"
    /\ last.tx.aborted
    /\ \E u \in last.tx.users : \A o \in last.tx.beginUsers : o.Email # u.Email
    /\ users = last.tx.beginUsers

\* C4: a successful delete returns the record exactly as it was stored before
\* the call, removes that record and no other, and a lookup by the identifier
\* then returns ErrNotFound; a delete of a stored identifier succeeds.
C4_DeleteReturnsPrior ==
    (IsCall /\ last.op \in {"DeleteUser", "DeleteCourse"})
        => /\ (last.fail = "nil" /\ Stored(ArgId)) => last.err = "nil"
           /\ last.err = "nil"
                => /\ last.res \in PreTable
                   /\ last.res.Id = last.arg
                   /\ NowTable = PreTable \ {last.res}
                   /\ OtherSame
                   /\ IF last.op = "DeleteUser"
                      THEN GetUser(NowTable, last.arg, "nil").err = ErrNotFound
                      ELSE GetCourse(NowTable, last.arg, "nil").err = ErrNotFound

\* C4 witness: a delete of one of two stored accounts whose fields are not zero
C4_Witness ==
    /\ IsCall
    /\ last.op = "DeleteUser"
    /\ last.err = "nil"
    /\ Cardinality(last.pre.users) = 2
    /\ last.res.Password # "" /\ last.res.Role
    /\ Cardinality(Now.users) = 1

\* the record with the identifier last.arg.Id as it was stored before the call
Before == CHOOSE r \in PreTable : r.Id = last.arg.Id

\* C5 (as claimed): an UpdateUser that supplies only the email (the secret of
\* the argument is left unset) leaves the stored secret untouched, and an
\* update changes no identifier, no role flag and no other row.
C5_SelectiveOverwrite ==
    (IsCall /\ last.op = "UpdateUser" /\ last.err = "nil" /\ last.arg.Password = "")
        => \E n \in Now.users :
              /\ n.Id = Before.Id
              /\ n.Role = Before.Role
              /\ n.Password = Before.Password
              /\ Now.users \ {n} = last.pre.users \ {Before}

\* C5 (amended): a successful UpdateUser replaces the email and the secret of
\* the one row with the given identifier by those of its argument, whatever
\* they are (UpdateCourse: name, URL, text), and changes no identifier, no role
\* flag, no other row and nothing in the other table.
C5_UpdateOverwrites ==
    (IsCall /\ last.op \in {"UpdateUser", "UpdateCourse"} /\ last.err = "nil")
        => /\ Stored(last.arg.Id)
           /\ OtherSame
           /\ IF last.op = "UpdateUser"
              THEN Now.users = (last.pre.users \ {Before})
                      \cup {[Before EXCEPT !.Email = last.arg.Email,
                                           !.Password = last.arg.Password]}
              ELSE Now.courses = (last.pre.courses \ {Before})
                      \cup {[Before EXCEPT !.Name = last.arg.Name,
                                           !.URL = last.arg.URL,
                                           !.Text = last.arg.Text]}

\* C5 witness: an update of one of two accounts that supplies a new email, no
\* secret and another role flag than the stored one
C5_Witness ==
    /\ IsCall
    /\ last.op = "UpdateUser"
    /\ last.err = "nil"
    /\ Cardinality(last.pre.users) = 2
    /\ Before.Password # ""
    /\ last.arg.Password = ""
    /\ last.arg.Role # Before.Role
    /\ \E n \in Now.users : n.Id = Before.Id /\ n.Password = "" /\ n.Role = Before.Role

\* C6 (as claimed): every error a repository function returns is ErrNotFound,
\* ErrAlreadyExist or ErrUnknown. The code returns the store's error itself.
C6_ErrorsClassified == IsCall => last.err \in Taxonomy \cup {"nil"}

\* C7: GetCourses fails only when the store does; otherwise it returns a
\* non-nil sequence that holds every stored course exactly once and nothing
\* else (the empty sequence for an empty table), and changes nothing.
C7_ListTotality ==
    (IsCall /\ last.op = "GetCourses")
        => /\ last.fail = "nil" => last.err = "nil"
           /\ last.err = "nil"
                => /\ ~last.res.nil
                   /\ Len(last.res.elems) = Cardinality(last.pre.courses)
                   /\ {last.res.elems[i] : i \in DOMAIN last.res.elems} = last.pre.courses
                   /\ StoreSame

\* C7 witness: a listing of two stored courses
C7_Witness ==
    /\ IsCall
    /\ last.op = "GetCourses"
    /\ last.err = "nil"
    /\ Len(last.res.elems) = 2
    /\ last.res.elems[1] # last.res.elems[2]

\* the status of a response: that of the first c.JSON call
Status == http.writes[1].status

\* C8 (as claimed): for a request that decoded, ErrAlreadyExist and
\* ErrNotFound are answered with a client error, any other error with a server
\* error, and the success envelope is written only for a successful result.
C8_BoundaryMapping ==
    (http.handler # "none" /\ http.decoded)
        => /\ last.err \in {ErrAlreadyExist, ErrNotFound} => Status = 400
           /\ last.err \notin {"nil", ErrAlreadyExist, ErrNotFound} => Status = 500
           /\ (\E i \in DOMAIN http.writes : http.writes[i].key = "OK") => last.err = "nil"

\* C9 (as claimed): signIn answers OK only when an account with the email is
\* stored and the secrets are equal; with no such account it answers with a
\* client error and never reads a field of the absent record.
C9_SignInRejects ==
    http.handler = "signIn"
        => /\ ~http.panic
           /\ (\E i \in DOMAIN http.writes : http.writes[i].key = "OK")
                => \E u \in users : u.Email = last.arg /\ u = last.res
           /\ (last.fail = "nil" /\ \A u \in users : u.Email # last.arg)
                => last.err = ErrNotFound /\ Status = 400

\* C10: after a successful create a lookup by the identifier returns the
\* created record; after a successful update the lookup returns the updated
\* values and a delete returns that same record; after a successful delete the
\* lookup returns ErrNotFound. For courses and for accounts.
C10_RoundTrip ==
    (IsCall /\ last.err = "nil")
        => /\ last.op = "CreateCourse"
                => GetCourse(NowTable, last.arg.Id, "nil") =
                      [res |-> last.arg, err |-> "nil", table |-> NowTable]
           /\ last.op = "CreateUser"
                => GetUser(NowTable, last.arg.Id, "nil") =
                      [res |-> last.arg, err |-> "nil", table |-> NowTable]
           /\ last.op = "UpdateCourse"
                => /\ GetCourse(NowTable, last.arg.Id, "nil").res = last.arg
                   /\ DeleteCourse(NowTable, last.arg.Id, "nil").res = last.arg
           /\ last.op = "UpdateUser"
                => /\ GetUser(NowTable, last.arg.Id, "nil").res =
                         [last.arg EXCEPT !.Role = Before.Role]
                   /\ DeleteUser(NowTable, last.arg.Id, "nil").res =
                         [last.arg EXCEPT !.Role = Before.Role]
           /\ last.op = "DeleteCourse"
                => GetCourse(NowTable, last.arg, "nil").err = ErrNotFound
           /\ last.op = "DeleteUser"
                => GetUser(NowTable, last.arg, "nil").err = ErrNotFound

\* C10 witness: an update that gave a stored course a new name and URL
C10_Witness ==
    /\ IsCall
    /\ last.op = "UpdateCourse"
    /\ last.err = "nil"
    /\ Before.Name # last.arg.Name
    /\ Before.URL # last.arg.URL
    /\ last.arg.URL # ""
    /\ last.arg \in Now.courses

\* C11: GetCourse, GetUser, Auth and GetCourses, and the getCourse and
\* getCourses handlers, leave both tables as they were, whether the record is
\* found, not found or the store fails; the committed tables are untouched too
\* when the read ran inside the transaction.
C11_LookupPureRead ==
    (IsCall /\ (\/ last.op \in {"GetCourse", "GetUser", "Auth", "GetCourses"}
                \/ http.handler \in {"getCourse", "getCourses"}))
        => /\ StoreSame
           /\ last.handle = "tx" => users = tx.beginUsers /\ courses = tx.beginCourses

\* C11 witness: a getCourse request that found its course, which is still stored
C11_Witness ==
    /\ IsCall
    /\ http.handler = "getCourse"
    /\ last.err = "nil"
    /\ last.res \in courses
    /\ last.res.Id = last.arg

\* a step that is one repository call (made directly or by a handler)
CallStep == last.op = "none" /\ last'.op \in RepoOps

\* C12: every repository call runs on the one handle its resolution yields,
\* the transaction when its context carries one and the default handle
\* otherwise: it reads and writes that handle's tables only, and it neither
\* begins nor ends a transaction, whether it succeeds or fails.
C12_HandleResolution ==
    [][CallStep =>
        /\ last'.handle = (IF last'.ctx = "txctx" THEN "tx" ELSE "db")
        /\ tx'.open = tx.open
        /\ tx'.beginUsers = tx.beginUsers
        /\ tx'.beginCourses = tx.beginCourses
        /\ last'.handle = "tx"
              => /\ tx.open
                 /\ last'.pre = [users |-> tx.users, courses |-> tx.courses]
                 /\ users' = users
                 /\ courses' = courses
        /\ last'.handle = "db"
              => /\ last'.pre = [users |-> users, courses |-> courses]
                 /\ tx' = tx]_vars

\* C12 witness: a failed call and a successful write, both made with the
\* transaction's context: the transaction is still open and its write is not
\* in the committed table
C12_Witness ==
    /\ IsCall
    /\ last.ctx = "txctx"
    /\ last.handle = "tx"
    /\ last.err # "nil"
    /\ tx.open
    /\ tx.users # users

\* two requests that have both run their insert
Inserted(r) == reqs[r].pc \in {"created", "done"}

\* C13 (as claimed): when two concurrent requests create accounts with the
\* same email and the store does not fail, one create succeeds, the other
\* returns ErrAlreadyExist, and exactly one account with that email is stored.
\* The store admits one insert only, but the loser gets the driver's error.
C13_ConcurrentCreate ==
    \A r1, r2 \in Reqs :
        (/\ r1 # r2
         /\ Inserted(r1) /\ Inserted(r2)
         /\ reqs[r1].user.Email = reqs[r2].user.Email
         /\ reqs[r1].fail = "nil" /\ reqs[r2].fail = "nil")
            => /\ {reqs[r1].err, reqs[r2].err} = {"nil", ErrAlreadyExist}
               /\ Cardinality({u \in users : u.Email = reqs[r1].user.Email}) = 1

\* the unique indexes of a table: the primary key and the unique column
UniqueRows(table, key) ==
    \A r1, r2 \in table : (r1.Id = r2.Id \/ r1[key] = r2[key]) => r1 = r2

IsUpdate == last.op \in {"UpdateUser", "UpdateCourse"}

KeyOf == IF last.kind = "users" THEN "Email" ELSE "Name"

\* the update would give the record the key of a different stored record
UpdateClash ==
    /\ IsUpdate
    /\ Stored(last.arg.Id)
    /\ \E o \in PreTable : o.Id # last.arg.Id /\ o[KeyOf] = last.arg[KeyOf]

\* C14: in every reachable state (committed tables and the open transaction's
\* view) no two accounts share an email or an identifier and no two courses
\* share a name or an identifier; an update that would give a record the email
\* (name) of a different stored record returns an error and changes nothing;
\* an update never changes which identifiers are stored, nor any other record.
C14_StoreInvariants ==
    /\ UniqueRows(users, "Email") /\ UniqueRows(courses, "Name")
    /\ tx.open => UniqueRows(tx.users, "Email") /\ UniqueRows(tx.courses, "Name")
    /\ UpdateClash => last.err # "nil" /\ StoreSame
    /\ IsUpdate => /\ {r.Id : r \in NowTable} = {r.Id : r \in PreTable}
                   /\ {r \in NowTable : r.Id # last.arg.Id} = {r \in PreTable : r.Id # last.arg.Id}
                   /\ OtherSame

C14_Witness ==
    /\ UpdateClash
    /\ last.fail = "nil"
    /\ last.err = DuplicateError
    /\ Cardinality(NowTable) = 2

\* a client-error or server-error envelope among the c.JSON calls of a request
ErrorWritten == \E i \in DOMAIN http.writes : http.writes[i].status \in {400, 500}

\* C15 (as claimed): a handled request has written exactly one envelope; a
\* request whose body or identifier did not decode has made no repository
\* call; after an error envelope no success envelope is written. The handlers
\* write the error and go on: no return follows c.JSON on the error paths.
C15_OneResponse ==
    (http.handler # "none" /\ ~http.panic)
        => /\ Len(http.writes) = 1
           /\ ~http.decoded => ~IsCall
           /\ ErrorWritten => \A i \in DOMAIN http.writes : http.writes[i].key # "OK"

====
